---- MODULE Spec2Model ----
(***************************************************************************)
(* Model of pkg/v2/prop/navigator.go: the defaultNavigator, a stack-based  *)
(* cursor over a property tree with a sticky error.                        *)
(*                                                                         *)
(* The Property and Event implementations live outside navigator.go; the   *)
(* navigator only consumes their interface.  They are modelled here as a   *)
(* small fixed tree whose fallible capabilities (mutation, notification,   *)
(* callbacks) have their outcome chosen by the environment.  The navigator *)
(* never reads a property's value, so the tree's content is not part of    *)
(* the state: what a call did to the tree is the sequence of capabilities  *)
(* it invoked, kept in log.                                                *)
(***************************************************************************)
EXTENDS Integers, Sequences, FiniteSets, TLC

\* ------------------------------------------------------------------ bounds
MaxIndex == 2        \* At is tried with indices -1 .. MaxIndex
MaxCalls == 3        \* longest Dot/At/Where-only call sequence that is replayed

\* ------------------------------------------------- the property tree (env)
Root == "R"
Nodes == {"R", "emails", "E0", "E1", "E0.value", "E1.value"}
NoNode == ""

Names == {"emails", "EMAILS", "value", "missing"}
Indexes == (0 - 1) .. MaxIndex
Values == {"a", "b"}
Null == "null"
Criterias == {"any", "none", "isE1"}

\* immediate children of a property, in iteration order
Children(n) ==
    CASE n = "R"      -> <<"emails">>
      [] n = "emails" -> <<"E0", "E1">>
      [] n = "E0"     -> <<"E0.value">>
      [] n = "E1"     -> <<"E1.value">>
      [] OTHER        -> <<>>

\* attribute name of a property (elements of a multi-valued property have none)
AttrName(n) ==
    CASE n = "emails"   -> "emails"
      [] n = "E0.value" -> "value"
      [] n = "E1.value" -> "value"
      [] OTHER          -> ""

Lower(name) == IF name = "EMAILS" THEN "emails" ELSE name

IsMulti(n) == n = "emails"

\* Property.ChildAtIndex(name string): case-insensitive sub property lookup
ChildAtName(n, name) ==
    IF IsMulti(n) THEN NoNode
    ELSE LET hit == {i \in 1..Len(Children(n)) : AttrName(Children(n)[i]) = Lower(name)}
         IN IF hit = {} THEN NoNode ELSE Children(n)[CHOOSE i \in hit : TRUE]

\* Property.ChildAtIndex(index int): element lookup of a multi-valued property
ChildAtIndex(n, index) ==
    IF IsMulti(n) /\ index >= 0 /\ index < Len(Children(n))
    THEN Children(n)[index + 1] ELSE NoNode

\* ------------------------------------------------------------ error values
Err(kind, name, index, path) == [kind |-> kind, name |-> name, index |-> index, path |-> path]
NoError == Err("nil", "", 0, "")
ErrInvalidPath(name, path) == Err("ErrInvalidPath", name, 0, path)
ErrNoTargetAt(index, path) == Err("ErrNoTarget", "", index, path)
ErrNoTargetWhere(path)     == Err("ErrNoTarget", "criteria", 0, path)
ModErr(op, path)           == Err("ModFailure", op, 0, path)
NotifyErr(path)            == Err("NotifyFailure", "", 0, path)
CallbackErr(index, path)   == Err("CallbackFailure", "", index, path)

\* ------------------------------------------------------------------ events
NoEvent == [typ |-> "nil", source |-> NoNode]
Event(typ, source) == [typ |-> typ, source |-> source]
ToEvents(ev) == <<ev>>

\* ------------------------------------------------------------------- state
VARIABLES
    stack,    \* defaultNavigator.stack
    err,      \* defaultNavigator.err
    last,     \* the most recent call: operation, arguments, state before it, result
    log,      \* node capabilities invoked by the most recent call, in order
    trace,    \* the calls so far while they were Dot/At/Where only, else untracked
    prev      \* for each focus still on the stack, the node focused right before it

vars == <<stack, err, last, log, trace, prev>>

\* the record of a call: its arguments, the environment's choices (outcome,
\* failing, bad), the state it started from, whether the call before it was
\* ClearError, and what it returned
Call(op, name, index, criteria, ret) ==
    [op |-> op, name |-> name, index |-> index, criteria |-> criteria, value |-> Null,
     outcome |-> "", failing |-> {}, bad |-> {},
     preStack |-> stack, preErr |-> err, prePrev |-> prev, afterClear |-> last.op = "ClearError",
     ret |-> ret]

Entry(cap, node, events) == [cap |-> cap, node |-> node, events |-> events]

Untracked == <<[op |-> "untracked", name |-> "", index |-> 0, criteria |-> ""]>>
Step(op, name, index, criteria) == [op |-> op, name |-> name, index |-> index, criteria |-> criteria]
Track(s) == IF trace # Untracked /\ Len(trace) < MaxCalls THEN Append(trace, s) ELSE Untracked

\* the focus history after a call that left the stack as s
Focused(s) == IF s # stack THEN Append(prev, stack[Len(stack)]) ELSE prev

\* ---------------------------------------------------------------- accessors
Error == err
HasError == err # NoError
Depth == Len(stack)
Source == stack[1]
Current == stack[Len(stack)]

\* criteria func(child Property) bool
Satisfies(criteria, n) ==
    CASE criteria = "any"      -> TRUE
      [] criteria = "none"     -> FALSE
      [] criteria = "isE1"     -> n = "E1"

\* Property.FindChild(criteria): first child in iteration order meeting criteria
FindChild(n, criteria) ==
    LET hit == {i \in 1..Len(Children(n)) : Satisfies(criteria, Children(n)[i])}
    IN IF hit = {} THEN NoNode
       ELSE Children(n)[CHOOSE i \in hit : \A j \in hit : i <= j]

\* -------------------------------------------------------------- operations
Navigate(property) ==
    /\ stack = <<property>>
    /\ err = NoError

Init ==
    /\ Navigate(Root)
    /\ last = [op |-> "Navigate", name |-> "", index |-> 0, criteria |-> "", value |-> Null,
               outcome |-> "", failing |-> {}, bad |-> {},
               preStack |-> <<Root>>, preErr |-> NoError, prePrev |-> <<>>,
               afterClear |-> FALSE, ret |-> NoError]
    /\ log = <<>>
    /\ trace = <<>>
    /\ prev = <<>>

\* mutant: clearing the error also rewinds the stack to the source
ClearError_rewinds ==
    /\ err' = NoError
    /\ stack' = <<stack[1]>>
    /\ last' = Call("ClearError", "", 0, "", NoError)
    /\ log' = <<>>
    /\ trace' = Untracked
    /\ prev' = <<>>

ClearError ==
    /\ err' = NoError
    /\ last' = Call("ClearError", "", 0, "", NoError)
    /\ log' = <<>>
    /\ trace' = Untracked
    /\ UNCHANGED <<stack, prev>>

\* mutant: the source can be retracted
RetractStack_noFloor(s) == SubSeq(s, 1, Len(s) - 1)

\* mutant: retracts all the way to the source
RetractStack_toSource(s) == <<s[1]>>

RetractStack(s) == IF Len(s) > 1 THEN SubSeq(s, 1, Len(s) - 1) ELSE s

\* mutant: retracting resets the sticky error
Retract_clearsError ==
    /\ stack' = IF Len(stack) > 1 THEN SubSeq(stack, 1, Len(stack) - 1) ELSE stack
    /\ err' = NoError
    /\ last' = Call("Retract", "", 0, "", NoError)
    /\ log' = <<>>
    /\ trace' = Untracked
    /\ prev' = IF Len(prev) > 0 THEN SubSeq(prev, 1, Len(prev) - 1) ELSE prev

Retract ==
    /\ stack' = RetractStack(stack)
    /\ last' = Call("Retract", "", 0, "", NoError)
    /\ log' = <<>>
    /\ trace' = Untracked
    /\ prev' = IF Len(prev) > 0 THEN SubSeq(prev, 1, Len(prev) - 1) ELSE prev
    /\ UNCHANGED err

\* mutant: Dot does not look at the sticky error
DotResult_noErrCheck(name) ==
    LET child == ChildAtName(Current, name)
        lg == <<Entry("ChildAtIndex", Current, <<>>)>>
    IN IF child = NoNode
       THEN [stack |-> stack, err |-> ErrInvalidPath(name, Current), log |-> lg]
       ELSE [stack |-> Append(stack, child), err |-> NoError, log |-> lg]

\* mutant: Dot reports its failure as At does
DotResult_noTarget(name) ==
    IF err # NoError THEN [stack |-> stack, err |-> err, log |-> <<>>]
    ELSE LET child == ChildAtName(Current, name)
             lg == <<Entry("ChildAtIndex", Current, <<>>)>>
         IN IF child = NoNode
            THEN [stack |-> stack, err |-> Err("ErrNoTarget", name, 0, Current), log |-> lg]
            ELSE [stack |-> Append(stack, child), err |-> NoError, log |-> lg]

\* result of Dot: the new stack, the new error and the capabilities invoked
DotResult(name) ==
    IF err # NoError THEN [stack |-> stack, err |-> err, log |-> <<>>]
    ELSE LET child == ChildAtName(Current, name)
             lg == <<Entry("ChildAtIndex", Current, <<>>)>>
         IN IF child = NoNode
            THEN [stack |-> stack, err |-> ErrInvalidPath(name, Current), log |-> lg]
            ELSE [stack |-> Append(stack, child), err |-> NoError, log |-> lg]

Dot(name) ==
    LET r == DotResult(name) IN
    /\ stack' = r.stack
    /\ err' = r.err
    /\ log' = r.log
    /\ last' = Call("Dot", name, 0, "", NoError)
    /\ trace' = Track(Step("Dot", name, 0, ""))
    /\ prev' = Focused(r.stack)

AtResult(index) ==
    IF err # NoError THEN [stack |-> stack, err |-> err, log |-> <<>>]
    ELSE LET child == ChildAtIndex(Current, index)
             lg == <<Entry("ChildAtIndex", Current, <<>>)>>
         IN IF child = NoNode
            THEN [stack |-> stack, err |-> ErrNoTargetAt(index, Current), log |-> lg]
            ELSE [stack |-> Append(stack, child), err |-> NoError, log |-> lg]

At(index) ==
    LET r == AtResult(index) IN
    /\ stack' = r.stack
    /\ err' = r.err
    /\ log' = r.log
    /\ last' = Call("At", "", index, "", NoError)
    /\ trace' = Track(Step("At", "", index, ""))
    /\ prev' = Focused(r.stack)

\* mutant: Where pushes every child meeting the criteria
WhereResult_pushesAll(criteria) ==
    IF err # NoError THEN [stack |-> stack, err |-> err, log |-> <<>>]
    ELSE LET met == SelectSeq(Children(Current), LAMBDA c : Satisfies(criteria, c))
             lg == <<Entry("FindChild", Current, <<>>)>>
         IN IF met = <<>>
            THEN [stack |-> stack, err |-> ErrNoTargetWhere(Current), log |-> lg]
            ELSE [stack |-> stack \o met, err |-> NoError, log |-> lg]

\* mutant: Where pushes what FindChild returned without the nil check
WhereResult_pushNil(criteria) ==
    IF err # NoError THEN [stack |-> stack, err |-> err, log |-> <<>>]
    ELSE [stack |-> Append(stack, FindChild(Current, criteria)), err |-> NoError,
          log |-> <<Entry("FindChild", Current, <<>>)>>]

WhereResult(criteria) ==
    IF err # NoError THEN [stack |-> stack, err |-> err, log |-> <<>>]
    ELSE LET child == FindChild(Current, criteria)
             lg == <<Entry("FindChild", Current, <<>>)>>
         IN IF child = NoNode
            THEN [stack |-> stack, err |-> ErrNoTargetWhere(Current), log |-> lg]
            ELSE [stack |-> Append(stack, child), err |-> NoError, log |-> lg]

Where(criteria) ==
    LET r == WhereResult(criteria) IN
    /\ stack' = r.stack
    /\ err' = r.err
    /\ log' = r.log
    /\ last' = Call("Where", "", 0, criteria, NoError)
    /\ trace' = Track(Step("Where", "", 0, criteria))
    /\ prev' = Focused(r.stack)

\* Property.ForEachChild(callback) from child i on: halts at the first callback
\* failure; bad is the set of child positions at which the callback fails
RECURSIVE IterChildren(_, _, _)
IterChildren(n, i, bad) ==
    IF i > Len(Children(n)) THEN [err |-> NoError, log |-> <<>>]
    ELSE LET entry == Entry("callback", Children(n)[i], <<>>) IN
         IF i \in bad THEN [err |-> CallbackErr(i - 1, n), log |-> <<entry>>]
         ELSE LET rest == IterChildren(n, i + 1, bad)
              IN [err |-> rest.err, log |-> <<entry>> \o rest.log]

\* mutant: ForEachChild iterates whatever the sticky error
ForEachChildResult_noErrCheck(bad) ==
    LET r == IterChildren(Current, 1, bad)
    IN [ret |-> r.err, log |-> <<Entry("ForEachChild", Current, <<>>)>> \o r.log]

ForEachChildResult(bad) ==
    IF err # NoError THEN [ret |-> err, log |-> <<>>]
    ELSE LET r == IterChildren(Current, 1, bad)
         IN [ret |-> r.err, log |-> <<Entry("ForEachChild", Current, <<>>)>> \o r.log]

\* mutant: ForEachChild stores the error it returns
ForEachChild_storesError(bad) ==
    LET r == IF err # NoError THEN [ret |-> err, log |-> <<>>]
             ELSE LET it == IterChildren(Current, 1, bad)
                  IN [ret |-> it.err,
                      log |-> <<Entry("ForEachChild", Current, <<>>)>> \o it.log]
    IN
    /\ err' = r.ret
    /\ log' = r.log
    /\ last' = [Call("ForEachChild", "", 0, "", r.ret) EXCEPT !.bad = bad]
    /\ trace' = Untracked
    /\ UNCHANGED <<stack, prev>>

ForEachChild(bad) ==
    LET r == ForEachChildResult(bad) IN
    /\ log' = r.log
    /\ last' = [Call("ForEachChild", "", 0, "", r.ret) EXCEPT !.bad = bad]
    /\ trace' = Untracked
    /\ UNCHANGED <<stack, err, prev>>

\* Property.Add / Replace / Delete on node n: the environment picks the outcome,
\* "fail" (an error), "nil" (applied, no event) or "event" (applied, an event)
PropMod(op, n, outcome) ==
    [ev  |-> IF outcome = "event"
             THEN Event(IF op = "Delete" THEN "unassigned" ELSE "assigned", n)
             ELSE NoEvent,
     err |-> IF outcome = "fail" THEN ModErr(op, n) ELSE NoError]

\* mutant: the loop stops above the source (i > 0 for i >= 0)
RECURSIVE NotifyLoop_skipSource(_, _, _)
NotifyLoop_skipSource(i, events, failing) ==
    IF i < 2 THEN [err |-> NoError, log |-> <<>>]
    ELSE LET entry == Entry("Notify", stack[i], events) IN
         IF stack[i] \in failing THEN [err |-> NotifyErr(stack[i]), log |-> <<entry>>]
         ELSE LET rest == NotifyLoop_skipSource(i - 1, events, failing)
              IN [err |-> rest.err, log |-> <<entry>> \o rest.log]

\* mutant: the loop remembers the first failure but notifies the remaining levels
RECURSIVE NotifyLoop_keepGoing(_, _, _)
NotifyLoop_keepGoing(i, events, failing) ==
    IF i < 1 THEN [err |-> NoError, log |-> <<>>]
    ELSE LET entry == Entry("Notify", stack[i], events)
             rest == NotifyLoop_keepGoing(i - 1, events, failing)
         IN [err |-> IF stack[i] \in failing THEN NotifyErr(stack[i]) ELSE rest.err,
             log |-> <<entry>> \o rest.log]

\* the loop of delegateMod from stack position i down to the source:
\* failing is the set of nodes whose Notify fails
RECURSIVE NotifyLoop(_, _, _)
NotifyLoop(i, events, failing) ==
    IF i < 1 THEN [err |-> NoError, log |-> <<>>]
    ELSE LET entry == Entry("Notify", stack[i], events) IN
         IF stack[i] \in failing THEN [err |-> NotifyErr(stack[i]), log |-> <<entry>>]
         ELSE LET rest == NotifyLoop(i - 1, events, failing)
              IN [err |-> rest.err, log |-> <<entry>> \o rest.log]

\* mutant: the error of the delegated call is dropped and the loop runs anyway
delegateMod_ignoresModError(op, outcome, failing) ==
    IF err # NoError THEN [err |-> err, log |-> <<>>]
    ELSE LET r == PropMod(op, Current, outcome)
             lg == <<Entry(op, Current, <<>>)>>
             p == NotifyLoop(Len(stack), ToEvents(r.ev), failing)
         IN [err |-> p.err, log |-> lg \o p.log]

\* mutant: the loop runs without the check that the event is not nil
delegateMod_noNilCheck(op, outcome, failing) ==
    IF err # NoError THEN [err |-> err, log |-> <<>>]
    ELSE LET r == PropMod(op, Current, outcome)
             lg == <<Entry(op, Current, <<>>)>>
         IN IF r.err # NoError THEN [err |-> r.err, log |-> lg]
            ELSE LET p == NotifyLoop(Len(stack), ToEvents(r.ev), failing)
                 IN [err |-> p.err, log |-> lg \o p.log]

\* mutant: a failed notification is compensated by deleting what was applied
delegateMod_rollsBack(op, outcome, failing) ==
    IF err # NoError THEN [err |-> err, log |-> <<>>]
    ELSE LET r == PropMod(op, Current, outcome)
             lg == <<Entry(op, Current, <<>>)>>
         IN IF r.err # NoError THEN [err |-> r.err, log |-> lg]
            ELSE IF r.ev # NoEvent
                 THEN LET p == NotifyLoop(Len(stack), ToEvents(r.ev), failing)
                      IN [err |-> p.err,
                          log |-> IF p.err # NoError
                                  THEN lg \o p.log \o <<Entry("Delete", Current, <<>>)>>
                                  ELSE lg \o p.log]
                 ELSE [err |-> NoError, log |-> lg]

\* mutant: a faulted delegateMod returns nil, which Add/Replace/Delete store
delegateMod_nilWhenFaulted(op, outcome, failing) ==
    IF err # NoError THEN [err |-> NoError, log |-> <<>>]
    ELSE LET r == PropMod(op, Current, outcome)
             lg == <<Entry(op, Current, <<>>)>>
         IN IF r.err # NoError THEN [err |-> r.err, log |-> lg]
            ELSE IF r.ev # NoEvent
                 THEN LET p == NotifyLoop(Len(stack), ToEvents(r.ev), failing)
                      IN [err |-> p.err, log |-> lg \o p.log]
                 ELSE [err |-> NoError, log |-> lg]

delegateMod(op, outcome, failing) ==
    IF err # NoError THEN [err |-> err, log |-> <<>>]
    ELSE LET r == PropMod(op, Current, outcome)
             lg == <<Entry(op, Current, <<>>)>>
         IN IF r.err # NoError THEN [err |-> r.err, log |-> lg]
            ELSE IF r.ev # NoEvent
                 THEN LET p == NotifyLoop(Len(stack), ToEvents(r.ev), failing)
                      IN [err |-> p.err, log |-> lg \o p.log]
                 ELSE [err |-> NoError, log |-> lg]

Outcomes == {"fail", "nil", "event"}
StackNodes == {stack[i] : i \in 1..Len(stack)}

\* what the environment can do to one mutation: the outcome of the delegated
\* call and, when it yields an event, the nodes whose Notify fails
ModCases ==
    {[outcome |-> o, failing |-> {}] : o \in {"fail", "nil"}}
        \cup {[outcome |-> "event", failing |-> f] : f \in SUBSET StackNodes}

\* mutant: a Delete that succeeded retracts from the deleted node
Mutate_deleteRetracts(op, v, outcome, failing) ==
    LET r == IF err # NoError THEN [err |-> err, log |-> <<>>]
             ELSE LET m == PropMod(op, Current, outcome)
                      lg == <<Entry(op, Current, <<>>)>>
                  IN IF m.err # NoError THEN [err |-> m.err, log |-> lg]
                     ELSE IF m.ev # NoEvent
                          THEN LET p == NotifyLoop(Len(stack), ToEvents(m.ev), failing)
                               IN [err |-> p.err, log |-> lg \o p.log]
                          ELSE [err |-> NoError, log |-> lg]
        popped == op = "Delete" /\ err = NoError /\ r.err = NoError /\ Len(stack) > 1
    IN
    /\ err' = r.err
    /\ log' = r.log
    /\ last' = [Call(op, "", 0, "", NoError) EXCEPT
                    !.value = v, !.outcome = outcome, !.failing = failing]
    /\ trace' = Untracked
    /\ stack' = IF popped THEN SubSeq(stack, 1, Len(stack) - 1) ELSE stack
    /\ prev' = IF popped THEN SubSeq(prev, 1, Len(prev) - 1) ELSE prev

Mutate(op, v, outcome, failing) ==
    LET r == delegateMod(op, outcome, failing) IN
    /\ err' = r.err
    /\ log' = r.log
    /\ last' = [Call(op, "", 0, "", NoError) EXCEPT
                    !.value = v, !.outcome = outcome, !.failing = failing]
    /\ trace' = Untracked
    /\ UNCHANGED <<stack, prev>>

Add(v, outcome, failing) == Mutate("Add", v, outcome, failing)

Replace(v, outcome, failing) == Mutate("Replace", v, outcome, failing)

Delete(outcome, failing) == Mutate("Delete", Null, outcome, failing)

Next ==
    \/ ClearError
    \/ Retract
    \/ \E name \in Names : Dot(name)
    \/ \E index \in Indexes : At(index)
    \/ \E criteria \in Criterias : Where(criteria)
    \/ \E bad \in SUBSET (1..Len(Children(Current))) : ForEachChild(bad)
    \/ \E v \in Values, c \in ModCases : Add(v, c.outcome, c.failing)
    \/ \E v \in Values, c \in ModCases : Replace(v, c.outcome, c.failing)
    \/ \E c \in ModCases : Delete(c.outcome, c.failing)

Spec == Init /\ [][Next]_vars

\* ------------------------------------------------------ helpers for claims
NavOps == {"Dot", "At", "Where"}
ModOps == {"Add", "Replace", "Delete"}
GuardedOps == NavOps \cup ModOps \cup {"ForEachChild"}

PreDepth == Len(last.preStack)
PreCurrent == last.preStack[Len(last.preStack)]

\* positions of the log at which node n was notified
NotifiedAt(n) == {i \in 1..Len(log) : log[i].cap = "Notify" /\ log[i].node = n}

\* the call was a mutation started in clear state whose delegate returned an event
ModWithEvent == last.op \in ModOps /\ last.preErr = NoError /\ last.outcome = "event"

\* the child a Dot/At/Where step resolves to from node n, NoNode when it fails
Resolve(n, s) ==
    CASE s.op = "Dot"   -> ChildAtName(n, s.name)
      [] s.op = "At"    -> ChildAtIndex(n, s.index)
      [] s.op = "Where" -> FindChild(n, s.criteria)

\* number of steps of calls, from position i on and starting at node n, that
\* resolve before the first one that fails
RECURSIVE ResolvedBeforeFailure(_, _, _)
ResolvedBeforeFailure(n, calls, i) ==
    IF i > Len(calls) THEN 0
    ELSE LET child == Resolve(n, calls[i])
         IN IF child = NoNode THEN 0 ELSE 1 + ResolvedBeforeFailure(child, calls, i + 1)

\* ------------------------------------------------------------------ claims

\* C1: after any sequence of Navigator operations on a Navigator created by
\* Navigate(root), Depth() is at least 1 and Source() is still root.
C1_DepthAndSource == Depth >= 1 /\ Source = Root

C1_Witness ==
    /\ last.op = "Retract"
    /\ PreDepth = 1
    /\ HasError
    /\ Depth = 1
    /\ Source = Root

\* C2: a Dot, At, Where, Add, Replace, Delete or ForEachChild call made while
\* the sticky error is set leaves the error and the stack as they were and
\* invokes no capability of any node; ForEachChild returns the stored error
\* and the callback is not called.
C2_FaultedCallsAreInert ==
    (last.op \in GuardedOps /\ last.preErr # NoError) =>
        /\ err = last.preErr
        /\ stack = last.preStack
        /\ log = <<>>
        /\ last.op = "ForEachChild" => last.ret = last.preErr

C2_Witness ==
    /\ last.op = "ForEachChild"
    /\ last.preErr # NoError
    /\ Len(Children(Current)) > 0
    /\ last.ret = err

\* C3: a mutation in clear state whose delegate succeeds with a non-null event
\* and whose notifications all succeed notifies every stack level exactly
\* once, from Current down to Source, each with the same flattened events;
\* on the stack R, emails, E0, E0.value the depth is 4 and E0 is notified
\* before emails, which is notified before R.
C3_NotifiesEveryLevelLeafToRoot ==
    (ModWithEvent /\ last.failing \cap StackNodes = {}) =>
        /\ err = NoError
        /\ Len(log) = 1 + Depth
        /\ log[1] = Entry(last.op, Current, <<>>)
        /\ \A i \in 1..Depth :
              /\ log[1 + i].cap = "Notify"
              /\ log[1 + i].node = stack[Depth + 1 - i]
              /\ log[1 + i].events = log[2].events
        /\ Len(log[2].events) > 0
        /\ \A i \in 1..Depth : Cardinality(NotifiedAt(stack[i])) = 1
        /\ stack = <<"R", "emails", "E0", "E0.value">> =>
              /\ Depth = 4
              /\ \A a \in NotifiedAt("E0"), b \in NotifiedAt("emails"), c \in NotifiedAt("R") :
                    a < b /\ b < c

C3_Witness ==
    /\ last.op = "Replace"
    /\ ModWithEvent
    /\ last.failing = {}
    /\ stack = <<"R", "emails", "E0", "E0.value">>
    /\ Len(log) = 5

\* C4: when, after a successful mutation, the notification fails at an
\* intermediate stack level k, no level below k is notified and the failure
\* of level k is the sticky error.
C4_FailureStopsPropagation ==
    \A k \in 2..(Depth - 1) :
        (/\ ModWithEvent
         /\ stack[k] \in last.failing
         /\ \A j \in (k + 1)..Depth : stack[j] \notin last.failing) =>
            /\ err = NotifyErr(stack[k])
            /\ \A j \in 1..(k - 1) : NotifiedAt(stack[j]) = {}
            /\ NotifiedAt(stack[k]) # {}

C4_Witness ==
    /\ ModWithEvent
    /\ Depth = 4
    /\ last.failing = {stack[1], stack[2]}
    /\ err = NotifyErr(stack[2])

\* C5: after a sequence of Dot, At and Where calls only, on a fresh Navigator,
\* Depth() is 1 plus the number of calls that resolved before the first
\* failing call.
C5_DepthCountsResolvedCalls ==
    trace # Untracked => Depth = 1 + ResolvedBeforeFailure(Root, trace, 1)

C5_Witness ==
    /\ trace # Untracked
    /\ Len(trace) = 3
    /\ Resolve(Root, trace[1]) # NoNode
    /\ Resolve(Resolve(Root, trace[1]), trace[2]) = NoNode
    /\ Resolve(Resolve(Root, trace[1]), trace[3]) # NoNode
    /\ Depth = 2

\* C6: Dot(name) in clear state on a Current with no child of that name sets
\* an "invalid path" error and leaves the stack as it was.
C6_DotFailure ==
    (/\ last.op = "Dot"
     /\ last.preErr = NoError
     /\ ChildAtName(PreCurrent, last.name) = NoNode) =>
        /\ HasError
        /\ err.kind = "ErrInvalidPath"
        /\ err.name = last.name
        /\ err.path = PreCurrent
        /\ stack = last.preStack

C6_Witness ==
    /\ last.op = "Dot"
    /\ last.preErr = NoError
    /\ last.name = "missing"
    /\ PreDepth = 3
    /\ HasError

\* C7: At(index) in clear state with an index Current cannot resolve, or
\* Where(criteria) in clear state with no child meeting it, sets a "no target"
\* error and leaves the stack as it was.
C7_AtWhereFailure ==
    (/\ last.preErr = NoError
     /\ \/ last.op = "At" /\ ChildAtIndex(PreCurrent, last.index) = NoNode
        \/ last.op = "Where" /\ \A i \in 1..Len(Children(PreCurrent)) :
                                    ~Satisfies(last.criteria, Children(PreCurrent)[i])) =>
        /\ HasError
        /\ err.kind = "ErrNoTarget"
        /\ err.path = PreCurrent
        /\ last.op = "At" => err.index = last.index
        /\ stack = last.preStack

C7_Witness ==
    \/ /\ last.op = "At"
       /\ last.preErr = NoError
       /\ PreCurrent = "emails"
       /\ last.index = Len(Children("emails"))
       /\ err.kind = "ErrNoTarget"
    \/ /\ last.op = "Where"
       /\ last.preErr = NoError
       /\ PreCurrent = "emails"
       /\ last.criteria = "none"
       /\ err.kind = "ErrNoTarget"

\* C8: Retract() at depth 1 changes nothing; at depth d > 1 it yields depth
\* d-1, keeps the elements below the top, and Current() becomes the node that
\* was focused right before the most recent focus still on the stack.
C8_Retract ==
    last.op = "Retract" =>
        /\ PreDepth = 1 => stack = last.preStack /\ Source = last.preStack[1]
        /\ PreDepth > 1 =>
              /\ Depth = PreDepth - 1
              /\ \A i \in 1..(PreDepth - 1) : stack[i] = last.preStack[i]
              /\ Len(last.prePrev) > 0
              /\ Current = last.prePrev[Len(last.prePrev)]

C8_Witness == last.op = "Retract" /\ PreDepth = 4 /\ Depth = 3 /\ Current = "E1"

\* C9: Retract() does the same in clear and in faulted state: it still removes
\* the last element at depth > 1, and it never changes the sticky error.
C9_RetractIgnoresError ==
    last.op = "Retract" =>
        /\ err = last.preErr
        /\ stack = IF PreDepth > 1 THEN SubSeq(last.preStack, 1, PreDepth - 1)
                   ELSE last.preStack

C9_Witness ==
    /\ last.op = "Retract"
    /\ last.preErr # NoError
    /\ PreDepth > 1
    /\ Depth = PreDepth - 1
    /\ HasError

\* C10: no call other than ClearError takes the Navigator from faulted to
\* clear or replaces the stored error by another one.
C10_OnlyClearErrorClears ==
    [][(HasError /\ last'.op # "ClearError") => err' = err]_vars

C10_Witness ==
    /\ last.op \in ModOps
    /\ last.preErr # NoError
    /\ err = last.preErr
    /\ last.outcome = "event"

\* C11: ClearError() clears the sticky error and leaves the stack as it was;
\* a Dot(name) issued right after it, for a name Current resolves, pushes that
\* child: Depth() grows by 1 and HasError() stays false.
C11_ClearErrorResumes ==
    /\ last.op = "ClearError" => (~HasError /\ stack = last.preStack)
    /\ (/\ last.op = "Dot"
        /\ last.afterClear
        /\ ChildAtName(PreCurrent, last.name) # NoNode) =>
           /\ ~HasError
           /\ Depth = PreDepth + 1
           /\ SubSeq(stack, 1, PreDepth) = last.preStack
           /\ Current = ChildAtName(PreCurrent, last.name)

C11_Witness ==
    /\ last.op = "Dot"
    /\ last.afterClear
    /\ PreDepth = 3
    /\ Depth = 4
    /\ ~HasError

\* C12: when the delegate of Add, Replace or Delete called in clear state
\* fails, that failure is the sticky error and no node on the stack is
\* notified.
C12_ModFailureIsSticky ==
    (last.op \in ModOps /\ last.preErr = NoError /\ last.outcome = "fail") =>
        /\ err = PropMod(last.op, PreCurrent, "fail").err
        /\ HasError
        /\ log = <<Entry(last.op, PreCurrent, <<>>)>>
        /\ \A i \in 1..Depth : NotifiedAt(stack[i]) = {}

C12_Witness ==
    /\ last.op = "Add"
    /\ last.preErr = NoError
    /\ last.outcome = "fail"
    /\ Depth = 3
    /\ err.kind = "ModFailure"

\* the iteration of the call failed: the callback failed at some child
IterationFailed == last.op = "ForEachChild" /\ last.preErr = NoError /\ last.bad # {}

\* C13 as stated: a failure raised during ForEachChild in clear state is
\* returned and stored as the sticky error, so HasError() is true afterwards.
C13_Original == IterationFailed => (last.ret # NoError /\ err = last.ret /\ HasError)

\* C13: a failure raised during ForEachChild in clear state is returned as
\* the node raised it and is not stored: the sticky error stays unset and the
\* stack is as before.
C13_IterationFailureOnlyReturned ==
    IterationFailed =>
        /\ last.ret = CallbackErr((CHOOSE i \in last.bad : \A j \in last.bad : i <= j) - 1,
                                  PreCurrent)
        /\ ~HasError
        /\ stack = last.preStack

C13_Witness ==
    /\ IterationFailed
    /\ last.bad = {2}
    /\ Len(log) = 3
    /\ last.ret.kind = "CallbackFailure"
    /\ ~HasError

\* positions of the children of the node the call started at that meet its criteria
Meeting == {i \in 1..Len(Children(PreCurrent)) : Satisfies(last.criteria, Children(PreCurrent)[i])}

\* C14: Where(criteria) in clear state pushes exactly one element, the first
\* child of Current in iteration order that meets the criteria.
C14_WherePushesFirstMatch ==
    (last.op = "Where" /\ last.preErr = NoError /\ Meeting # {}) =>
        /\ ~HasError
        /\ Depth = PreDepth + 1
        /\ SubSeq(stack, 1, PreDepth) = last.preStack
        /\ \E k \in Meeting :
              /\ Current = Children(PreCurrent)[k]
              /\ \A j \in 1..(k - 1) : j \notin Meeting

C14_Witness ==
    /\ last.op = "Where"
    /\ last.preErr = NoError
    /\ last.criteria = "any"
    /\ Cardinality(Meeting) = 2
    /\ Current = "E0"
    /\ Depth = 3

\* C15: when the delegate of Add, Replace or Delete called in clear state
\* succeeds with a nil event, no node is notified and the Navigator stays clear.
C15_NilEventNotPropagated ==
    (last.op \in ModOps /\ last.preErr = NoError /\ last.outcome = "nil") =>
        /\ ~HasError
        /\ log = <<Entry(last.op, PreCurrent, <<>>)>>
        /\ \A n \in Nodes : NotifiedAt(n) = {}

C15_Witness ==
    /\ last.op = "Replace"
    /\ last.preErr = NoError
    /\ last.outcome = "nil"
    /\ Depth = 4
    /\ Len(log) = 1

\* C16: Add, Replace and Delete never change the stack, whatever their
\* outcome; after a successful Delete() the deleted node is still Current().
C16_MutationsKeepStack ==
    last.op \in ModOps =>
        /\ stack = last.preStack
        /\ Depth = PreDepth
        /\ Source = last.preStack[1]
        /\ Current = PreCurrent

C16_Witness ==
    /\ last.op = "Delete"
    /\ last.preErr = NoError
    /\ last.outcome = "event"
    /\ ~HasError
    /\ log[1] = Entry("Delete", Current, <<>>)
    /\ Depth = 4

\* positions of the log at which a mutation was delegated
DelegatedAt == {i \in 1..Len(log) : log[i].cap \in ModOps}

\* C17: when a notification fails at stack level k during Add, Replace or
\* Delete, nothing is compensated: the mutation was delegated to Current
\* once, every level above k was notified once, level k once, no level below
\* it, and of the Navigator's state only the sticky error changed.
C17_NoCompensation ==
    \A k \in 1..Depth :
        (/\ ModWithEvent
         /\ stack[k] \in last.failing
         /\ \A j \in (k + 1)..Depth : stack[j] \notin last.failing) =>
            /\ DelegatedAt = {1}
            /\ log[1] = Entry(last.op, Current, <<>>)
            /\ Len(log) = 1 + (Depth - k + 1)
            /\ \A j \in k..Depth : Cardinality(NotifiedAt(stack[j])) = 1
            /\ \A j \in 1..(k - 1) : NotifiedAt(stack[j]) = {}
            /\ stack = last.preStack
            /\ err = NotifyErr(stack[k])

C17_Witness ==
    /\ ModWithEvent
    /\ Depth = 4
    /\ last.failing = {stack[2]}
    /\ Len(log) = 4
    /\ err = NotifyErr(stack[2])
====
